---- MODULE Spec2Model ----
(***************************************************************************)
(* A model of the simplexnoise tile server (src/main.go): request          *)
(* validation, the tile-to-world mapping, the rasterizer's pixel           *)
(* interpolation, the octave loop of the toroidal elevation field and the  *)
(* elevation palette.                                                      *)
(*                                                                         *)
(* Numbers.  Go's float64 is modelled bit-exactly for finite values: a     *)
(* value is a sign and the set of the exponents of the one bits of its     *)
(* magnitude (0.75 is {-1, -2}); every float64 operation is the exact      *)
(* operation followed by rounding to nearest, ties to even, on 53          *)
(* significant bits, as IEEE 754 prescribes.  Go's 64-bit int is the set   *)
(* of the positions of the one bits of its two's complement pattern.       *)
(***************************************************************************)
EXTENDS Integers, FiniteSets, Sequences, TLC

(***************************************************************************)
(* Magnitudes: finite sets of bit exponents.                               *)
(***************************************************************************)
MinOf(S) == CHOOSE i \in S : \A j \in S : i <= j

MaxOf(S) == 0 - MinOf({0 - i : i \in S})

Shift(S, k) == {i + k : i \in S}

\* the bits of a natural number below 2^31
NatBits(n) == {i \in 0..30 : (n \div (2^i)) % 2 = 1}

MagLt(a, b) ==
    LET d == (a \ b) \cup (b \ a)
    IN  d # {} /\ MaxOf(d) \in b

MagLe(a, b) == ~MagLt(b, a)

\* The positions that send a carry (a borrow) upwards, from those that
\* produce one (g) and those that pass one on (p), by carry look-ahead: after
\* the pass with distance d, g and p describe the blocks of 2 * d positions
RECURSIVE Carries(_, _, _)
Carries(g, p, d) ==
    IF g = {} \/ p = {} THEN g
    ELSE Carries(g \cup (p \cap Shift(g, d)), p \cap Shift(p, d), 2 * d)

\* a + b: bit i of the sum is a_i xor b_i xor (carry into i); a position
\* produces a carry where both have a bit and passes one on where one has
MagAdd(a, b) ==
    IF a \cap b = {} THEN a \cup b
    ELSE LET one   == (a \cup b) \ (a \cap b)
             carry == Shift(Carries(a \cap b, one, 1), 1)
         IN  (one \cup carry) \ (one \cap carry)

\* a - b for b <= a: bit i of the difference is a_i xor b_i xor (borrow
\* from i); a position produces a borrow where only b has a bit and passes
\* one on where both or neither have
MagSub(a, b) ==
    IF b \ a = {} THEN a \ b
    ELSE LET one    == (a \ b) \cup (b \ a)
             same   == (MinOf(b \ a)..MaxOf(a)) \ one
             borrow == Shift(Carries(b \ a, same, 1), 1)
         IN  (one \cup borrow) \ (one \cap borrow)

\* a * b, as the sum of the products of a by the low and by the high bits
\* of b
RECURSIVE MagMulBy(_, _)
MagMulBy(a, b) ==
    IF b = {} THEN {}
    ELSE IF MinOf(b) = MaxOf(b) THEN Shift(a, MinOf(b))
    ELSE LET mid == (MinOf(b) + MaxOf(b)) \div 2
         IN  MagAdd(MagMulBy(a, {i \in b : i <= mid}),
                    MagMulBy(a, {i \in b : i > mid}))

MagMul(a, b) ==
    IF Cardinality(a) < Cardinality(b) THEN MagMulBy(b, a) ELSE MagMulBy(a, b)

\* long division: the quotient bits hi, .., lo of rem / b and what is left
\* of rem, the bits hi .. mid + 1 first, then mid .. lo of what they leave
RECURSIVE DivRange(_, _, _, _)
DivRange(rem, b, hi, lo) ==
    IF hi = lo
    THEN IF MagLt(rem, Shift(b, hi)) THEN [q |-> {}, rem |-> rem]
         ELSE [q |-> {hi}, rem |-> MagSub(rem, Shift(b, hi))]
    ELSE LET mid == (hi + lo) \div 2
             top == DivRange(rem, b, hi, mid + 1)
             bot == DivRange(top.rem, b, mid, lo)
         IN  [q |-> top.q \cup bot.q, rem |-> bot.rem]

\* the quotient bits p, p-1, .., lo of rem / b, and one sticky bit below lo
\* when the division is inexact
DivSteps(rem, b, p, lo) ==
    LET r == DivRange(rem, b, p, lo)
    IN  r.q \cup (IF r.rem = {} THEN {} ELSE {lo - 1})

(***************************************************************************)
(* float64 (IEEE 754 binary64), finite values.                             *)
(***************************************************************************)
MantissaBits == 53

MinExponent == -1074

Mk(neg, bits) == [neg |-> neg /\ bits # {}, bits |-> bits]

\* round to nearest, ties to even
RoundMag(m) ==
    IF m = {} THEN {}
    ELSE LET top  == MaxOf(m)
             lsb  == IF top - (MantissaBits - 1) < MinExponent
                     THEN MinExponent ELSE top - (MantissaBits - 1)
             keep == {i \in m : i >= lsb}
             rest == {i \in m : i < lsb}
             up   == (lsb - 1) \in rest /\ (rest # {lsb - 1} \/ lsb \in keep)
         IN  IF up THEN MagAdd(keep, {lsb}) ELSE keep

RoundF(x) == Mk(x.neg, RoundMag(x.bits))

\* exact arithmetic on signed magnitudes
XNeg(a) == Mk(~a.neg, a.bits)

XAdd(a, b) ==
    IF a.neg = b.neg THEN Mk(a.neg, MagAdd(a.bits, b.bits))
    ELSE IF MagLt(a.bits, b.bits) THEN Mk(b.neg, MagSub(b.bits, a.bits))
    ELSE Mk(a.neg, MagSub(a.bits, b.bits))

XSub(a, b) == XAdd(a, XNeg(b))

XMul(a, b) == Mk(a.neg # b.neg, MagMul(a.bits, b.bits))

XLt(a, b) ==
    IF a.neg /\ ~b.neg THEN TRUE
    ELSE IF ~a.neg /\ b.neg THEN FALSE
    ELSE IF a.neg THEN MagLt(b.bits, a.bits)
    ELSE MagLt(a.bits, b.bits)

XLe(a, b) == ~XLt(b, a)

XAbs(a) == Mk(FALSE, a.bits)

\* the float64 operations of Go: +, -, *, / (a divisor is never zero here)
FAdd(a, b) == RoundF(XAdd(a, b))

FSub(a, b) == RoundF(XSub(a, b))

FMul(a, b) == RoundF(XMul(a, b))

FDiv(a, b) ==
    IF a.bits = {} THEN Mk(FALSE, {})
    ELSE IF Cardinality(b.bits) = 1
         THEN RoundF(Mk(a.neg # b.neg, Shift(a.bits, 0 - MaxOf(b.bits))))
    ELSE LET hi == MaxOf(a.bits) - MaxOf(b.bits)
         IN  RoundF(Mk(a.neg # b.neg,
                       DivSteps(a.bits, b.bits, hi, hi - (MantissaBits + 2))))

FLt(a, b) == XLt(a, b)

\* a small integer as a float64 (exact)
F(n) == IF n < 0 THEN Mk(TRUE, NatBits(0 - n)) ELSE Mk(FALSE, NatBits(n))

\* the float64 a decimal constant n/d of the source denotes
Dec(n, d) == FDiv(F(n), F(d))

(***************************************************************************)
(* Go's int, 64 bits wide: the positions of the one bits of the two's      *)
(* complement pattern.  uint has the same patterns, read unsigned.         *)
(***************************************************************************)
IntBits == 64

IntWrap(m) == {i \in m : i < IntBits}

IntNegative(a) == (IntBits - 1) \in a

\* a < b on int
IntLt(a, b) ==
    IF IntNegative(a) # IntNegative(b) THEN IntNegative(a) ELSE MagLt(a, b)

IntGe(a, b) == ~IntLt(a, b)

IntAdd(a, b) == IntWrap(MagAdd(a, b))

\* a << s: the bits shifted out are lost, and a count of IntBits or more
\* leaves 0
Shl(a, s) == IntWrap(Shift(a, s))

\* float64(a) for an int a, and for a uint a
IntToFloat(a) ==
    IF IntNegative(a) THEN RoundF(Mk(TRUE, MagSub({IntBits}, a)))
    ELSE RoundF(Mk(FALSE, a))

UintToFloat(a) == RoundF(Mk(FALSE, a))

\* the value of a bit pattern below 2^31
RECURSIVE BitsVal(_)
BitsVal(b) == IF b = {} THEN 0 ELSE LET i == MaxOf(b) IN 2^i + BitsVal(b \ {i})

(***************************************************************************)
(* Vector, Extent, tileExtent.                                             *)
(***************************************************************************)
Vector(x, y) == [X |-> x, Y |-> y]

Sub(v, u) == Vector(FSub(v.X, u.X), FSub(v.Y, u.Y))

Scale(v, f) == Vector(FMul(v.X, f), FMul(v.Y, f))

Half == Dec(5, 10)

Four == F(4)

\* (coords.Z < IntBits on every call: extractTileCoords lets no other zoom
\* through, so the divisor is never zero)
tileExtent(coords) ==
    LET size == UintToFloat(Shl({0}, coords.Z))
        min0 == Vector(FDiv(IntToFloat(coords.X), size),
                       FDiv(IntToFloat(coords.Y), size))
        max0 == Vector(FDiv(IntToFloat(IntAdd(coords.X, {0})), size),
                       FDiv(IntToFloat(IntAdd(coords.Y, {0})), size))
    IN  [Min |-> Scale(Sub(min0, Vector(Half, Half)), Four),
         Max |-> Scale(Sub(max0, Vector(Half, Half)), Four)]

(***************************************************************************)
(* extractTileCoords.  A path is the three numbers its digit groups        *)
(* denote (arbitrarily large), or no match of pathRegex at all.            *)
(***************************************************************************)
\* strconv.Atoi: a number that does not fit an int is an error
AtoiFails(n) == \E i \in n : i >= IntBits - 1

NoCoords == [Z |-> 0, X |-> {}, Y |-> {}]

extractTileCoords(path) ==
    IF ~path.match
    THEN [coords |-> NoCoords, err |-> "not enough matches"]
    ELSE IF AtoiFails(path.z)
    THEN [coords |-> NoCoords, err |-> "extracting z"]
    ELSE IF AtoiFails(path.x)
    THEN [coords |-> NoCoords, err |-> "extracting x"]
    ELSE IF AtoiFails(path.y)
    THEN [coords |-> NoCoords, err |-> "extracting y"]
    ELSE LET Z   == BitsVal(path.z)    \* (the sample zooms are below 2^31)
             max == Shl({0}, Z)
         IN  IF \/ IntLt(path.x, {}) \/ IntGe(path.x, max)
                \/ IntLt(path.y, {}) \/ IntGe(path.y, max)
             THEN [coords |-> NoCoords, err |-> "invalid tile coordinates"]
             ELSE [coords |-> [Z |-> Z, X |-> path.x, Y |-> path.y],
                   err |-> "nil"]

(***************************************************************************)
(* renderTile: the world point of a pixel.                                 *)
(***************************************************************************)
tileSize == 256

TileSizeF == F(tileSize)

PixelPoint(extent, x, y) ==
    Vector(FAdd(extent.Min.X,
                FDiv(FMul(FSub(extent.Max.X, extent.Min.X), F(x)), TileSizeF)),
           FAdd(extent.Min.Y,
                FDiv(FMul(FSub(extent.Max.X, extent.Min.X), F(y)), TileSizeF)))

(***************************************************************************)
(* simplexTorus.  The angle c.X / 2 * scale * math.Pi is kept as its       *)
(* number of half turns, c.X / 2 * scale (math.Pi is the half turn), and   *)
(* math.Cos and math.Sin are the cosine and sine of that angle: they       *)
(* depend on it modulo a full turn, and the model identifies the result    *)
(* by the function and the angle modulo two half turns.  The rounding of   *)
(* the product by math.Pi and of the library's results is not modelled.    *)
(* Noise4 is not part of the source at hand: it is a deterministic         *)
(* function of its four arguments, and its value is identified by them.    *)
(* The elevation is the float64 sum of the base octave and of the damped   *)
(* octaves in the order they are added; the model keeps the addends.       *)
(***************************************************************************)
Two == F(2)

One == F(1)

\* the half turns modulo 2, in [0, 2)
TurnOf(h) ==
    LET frac == {i \in h.bits : i < 1}
    IN  IF h.neg /\ frac # {} THEN MagSub({1}, frac) ELSE frac

Cos(h) == [fn |-> "cos", at |-> TurnOf(h)]

Sin(h) == [fn |-> "sin", at |-> TurnOf(h)]

Noise4(nx, ny, nz, nw) == [nx |-> nx, ny |-> ny, nz |-> nz, nw |-> nw]

\* c.X / 2 (* math.Pi) and c.X / 2 * scale (* math.Pi)
\* a variant that takes the quarter of the coordinate for the base octave
BaseAngleQuarter(v) == FDiv(v, Four)

BaseAngle(v) == FDiv(v, Two)

OctaveAngle(v, scale) == FMul(FDiv(v, Two), scale)

\* variants of the loop's bound: one that grows with the tile's column, one
\* that is the same at every zoom
OctaveLimitByColumn(coords) == coords.Z + 16 + Cardinality(coords.X)

OctaveLimitFixed(coords) == 16

\* the loop's bound coords.Z+16
OctaveLimit(coords) == coords.Z + 16

\* the function's state before the loop: the base octave, scale := 1, z := 1
TorusEntry(c) ==
    [z     |-> 1,
     scale |-> One,
     value |-> [first |-> Noise4(Cos(BaseAngle(c.X)), Cos(BaseAngle(c.Y)),
                                 Sin(BaseAngle(c.X)), Sin(BaseAngle(c.Y))),
                added |-> <<>>]]

\* one pass of the loop body, and z++
TorusOctave(c, st) ==
    LET scale == FMul(st.scale, Two)
        nx    == Cos(OctaveAngle(c.X, scale))
        nz    == Sin(OctaveAngle(c.X, scale))
        ny    == Cos(OctaveAngle(c.Y, scale))
        nw    == Sin(OctaveAngle(c.Y, scale))
    IN  [z     |-> st.z + 1,
         scale |-> scale,
         value |-> [first |-> st.value.first,
                    added |-> Append(st.value.added,
                                     [noise |-> Noise4(nx, ny, nz, nw),
                                      over  |-> scale])]]

RECURSIVE TorusLoop(_, _, _)
TorusLoop(c, coords, st) ==
    IF st.z <= OctaveLimit(coords)
    THEN TorusLoop(c, coords, TorusOctave(c, st))
    ELSE st.value

simplexTorus(c, coords) == TorusLoop(c, coords, TorusEntry(c))

(***************************************************************************)
(* colouriseByValue.  The float64 constants of the source are the          *)
(* correctly rounded decimals; 0.40 + 0.20 and 0.60 + 0.30 are constant    *)
(* expressions, which Go evaluates exactly before rounding.                *)
(***************************************************************************)
BoundDarkWater == Dec(-1, 10)

BoundWater == Dec(2, 10)

BoundSand == Dec(201, 1000)

BoundGrasslands == Dec(40, 100)

BoundGreenery == Dec(60, 100)

BoundMountains == Dec(90, 100)

BoundPaleSnow == Dec(12, 10)

D0_0 == F(0)

D0_1 == Dec(1, 10)

D0_2 == Dec(2, 10)

D0_4 == Dec(4, 10)

D0_5 == Dec(5, 10)

D0_6 == Dec(6, 10)

D0_7 == Dec(7, 10)

D0_8 == Dec(8, 10)

D0_9 == Dec(9, 10)

D1_2 == Dec(12, 10)

D1_6 == Dec(16, 10)

D0_202 == Dec(202, 1000)

D250 == F(250)

D500 == F(500)

D0xff == F(255)

\* a variant of the deep water that is darker than the water at -0.1
DarkBlueWaterDarker(value) == [r |-> D0_0, g |-> D0_0, b |-> D0_2]

DarkBlueWater(value) == [r |-> D0_0, g |-> D0_0, b |-> D0_4]

BlueWater(value) ==
    LET maximum == D0_0
    IN  [r |-> FAdd(D0_1, FAdd(maximum, value)),
         g |-> FAdd(D0_1, FAdd(maximum, value)),
         b |-> FAdd(D0_5, FAdd(maximum, value))]

\* a variant of the sand that has one colour
YellowSandFlat(value) == [r |-> One, g |-> One, b |-> D0_5]

YellowSand(value) ==
    [r |-> FMul(D500, FSub(D0_202, value)),
     g |-> FMul(D500, FSub(D0_202, value)),
     b |-> FMul(D250, FSub(D0_202, value))]

Grasslands(value) ==
    LET maximum == D0_6
    IN  [r |-> FMul(D1_2, FSub(maximum, value)),
         g |-> FMul(D1_6, FSub(maximum, value)),
         b |-> FMul(D0_8, FSub(maximum, value))]

Greenery(value) ==
    LET maximum == D0_9
    IN  [r |-> FMul(D0_2, FSub(maximum, value)),
         g |-> FMul(D0_8, FSub(maximum, value)),
         b |-> FMul(D0_1, FSub(maximum, value))]

\* diff := maximum - minimum, and the three quotients by it
MountainsDiff == FSub(D0_9, D0_1)

MountainsR == FDiv(D0_8, MountainsDiff)

MountainsG == FDiv(D0_7, MountainsDiff)

MountainsB == FDiv(D0_6, MountainsDiff)

Mountains(value) ==
    LET minimum == D0_1
    IN  [r |-> FMul(MountainsR, FSub(value, minimum)),
         g |-> FMul(MountainsG, FSub(value, minimum)),
         b |-> FMul(MountainsB, FSub(value, minimum))]

\* a variant of the pale snow whose red is not damped by 0.8
PaleSnowUndamped(value) ==
    [r |-> value, g |-> FMul(D0_8, value), b |-> FMul(D0_8, value)]

PaleSnow(value) ==
    [r |-> FMul(D0_8, value), g |-> FMul(D0_8, value), b |-> FMul(D0_8, value)]

WhiteSnow(value) == [r |-> One, g |-> One, b |-> One]

\* r, g and b when the if chain is left
Fractions(value) ==
    IF FLt(value, BoundDarkWater) THEN DarkBlueWater(value)
    ELSE IF FLt(value, BoundWater) THEN BlueWater(value)
    ELSE IF FLt(value, BoundSand) THEN YellowSand(value)
    ELSE IF FLt(value, BoundGrasslands) THEN Grasslands(value)
    ELSE IF FLt(value, BoundGreenery) THEN Greenery(value)
    ELSE IF FLt(value, BoundMountains) THEN Mountains(value)
    ELSE IF FLt(value, BoundPaleSnow) THEN PaleSnow(value)
    ELSE WhiteSnow(value)

\* uint8(f): the fraction is dropped; Go leaves the result open when the
\* truncated value does not fit, so every uint8 is possible then
Uint8(f) ==
    LET whole == {i \in f.bits : i >= 0}
    IN  IF (f.neg /\ whole # {}) \/ (\E i \in whole : i >= 8)
        THEN 0..255
        ELSE {BitsVal(whole)}

\* the colours the function can return
colouriseByValue(value) ==
    LET rgb == Fractions(value)
    IN  {[R |-> r8, G |-> g8, B |-> b8, A |-> 255] :
            r8 \in Uint8(FMul(rgb.r, D0xff)),
            g8 \in Uint8(FMul(rgb.g, D0xff)),
            b8 \in Uint8(FMul(rgb.b, D0xff))}

(***************************************************************************)
(* The requests the model sends: every zoom up to MaxShallowZoom and the   *)
(* zooms around the limits of float64 and of int, with the columns and     *)
(* rows at the ends and in the middle of the grid, just outside it, and    *)
(* past 2^53.                                                              *)
(***************************************************************************)
MaxShallowZoom == 1

DeepZooms == {46, 47, 53, 54, 55, 62, 63, 64}

Zooms == (0..MaxShallowZoom) \cup DeepZooms

\* the columns 0, 2^zoom - 1, 2^zoom, 2^(zoom-1) and 2^53 + 1
Columns(zoom) ==
    {{}, 0..(zoom - 1), {zoom}}
        \cup (IF zoom >= 1 THEN {{zoom - 1}} ELSE {})
        \cup (IF zoom >= MantissaBits + 1 THEN {{MantissaBits, 0}} ELSE {})

Rows(zoom) == {{}, 0..(zoom - 1), {zoom}}

Paths ==
    {[match |-> TRUE, z |-> NatBits(t[1]), x |-> t[2], y |-> t[3]] :
        t \in {u \in Zooms \X (UNION {Columns(zoom) : zoom \in Zooms})
                          \X (UNION {Rows(zoom) : zoom \in Zooms}) :
                  u[2] \in Columns(u[1]) /\ u[3] \in Rows(u[1])}}
    \cup {[match |-> TRUE, z |-> {IntBits - 1}, x |-> {}, y |-> {}],
          [match |-> FALSE, z |-> {}, x |-> {}, y |-> {}]}

\* the pixels of a tile the model renders
MaxLowPixel == 0

PixelSamples == (0..MaxLowPixel) \cup {tileSize \div 2, tileSize - 1}

\* the sample after pixel p, or tileSize after the last one
NextPixel(p) ==
    IF \E q \in PixelSamples : q > p
    THEN MinOf({q \in PixelSamples : q > p})
    ELSE tileSize

(***************************************************************************)
(* The calls of simplexTorus the model makes: every tile of the zooms up   *)
(* to MaxTorusZoom, the first and the last tile of row 0 at WrapZoom, and  *)
(* for each tile the world points of its corner pixels and the corners of  *)
(* its extent.                                                             *)
(***************************************************************************)
MaxTorusZoom == 1

WrapZoom == 5

TorusTiles ==
    {[Z |-> t[1], X |-> NatBits(t[2]), Y |-> NatBits(t[3])] :
        t \in {u \in (0..MaxTorusZoom) \X (0..(2^MaxTorusZoom - 1))
                                       \X (0..(2^MaxTorusZoom - 1)) :
                  u[2] < 2^u[1] /\ u[3] < 2^u[1]}}
    \cup {[Z |-> WrapZoom, X |-> {}, Y |-> {}],
          [Z |-> WrapZoom, X |-> 0..(WrapZoom - 1), Y |-> {}]}

TorusPoints(tile) ==
    LET e == tileExtent(tile)
    IN  {PixelPoint(e, t[1], t[2]) : t \in {0, tileSize - 1} \X {0, tileSize - 1}}
        \cup {e.Max, Vector(e.Max.X, e.Min.Y), Vector(e.Min.X, e.Max.Y)}

(***************************************************************************)
(* The elevations the model colours: the seven bounds of the bands, the    *)
(* float64 just below and just above each, the multiples of 1/GridUnit up  *)
(* to MaxGrid/GridUnit on both sides of 0, the largest magnitude of        *)
(* float64 and the magnitude 2^-106, which every sum with a constant of    *)
(* the palette absorbs.                                                    *)
(***************************************************************************)
\* the float64 next to f, away from 0 and towards 0 (f is not 0)
Outwards(f) == Mk(f.neg, MagAdd(f.bits, {MaxOf(f.bits) - (MantissaBits - 1)}))

Inwards(f) ==
    Mk(f.neg,
       MagSub(f.bits,
              {IF f.bits = {MaxOf(f.bits)} THEN MaxOf(f.bits) - MantissaBits
               ELSE MaxOf(f.bits) - (MantissaBits - 1)}))

NextDown(f) == IF f.neg THEN Outwards(f) ELSE Inwards(f)

NextUp(f) == IF f.neg THEN Inwards(f) ELSE Outwards(f)

BandBounds ==
    {BoundDarkWater, BoundWater, BoundSand, BoundGrasslands, BoundGreenery,
     BoundMountains, BoundPaleSnow}

MaxGrid == 70

GridUnit == 50

MaxExponent == 1023

ElevationSamples ==
    BandBounds
        \cup {NextDown(f) : f \in BandBounds}
        \cup {NextUp(f) : f \in BandBounds}
        \cup {Dec(k, GridUnit) : k \in (0 - MaxGrid)..MaxGrid}
        \cup {Mk(FALSE, {MaxExponent}), Mk(TRUE, {MaxExponent}),
              Mk(FALSE, {0 - 2 * MantissaBits}), Mk(TRUE, {0 - 2 * MantissaBits})}

(***************************************************************************)
(* State.  pc is the place in the code; path, coords, err, extent, x, y    *)
(* and c are the handler's and renderTile's variables; z, scale and value  *)
(* are simplexTorus's; elevation is the argument of colouriseByValue       *)
(* (value in the source), rgb its r, g and b, colour its result.           *)
(***************************************************************************)
VARIABLES pc, path, coords, err, extent, x, y, c, z, scale, value,
          elevation, rgb, colour

vars == <<pc, path, coords, err, extent, x, y, c, z, scale, value,
          elevation, rgb, colour>>

tileVars == <<path, err, extent, x, y>>

torusVars == <<z, scale, value>>

paletteVars == <<elevation, rgb, colour>>

NoVector == Vector(F(0), F(0))

NoExtent == [Min |-> NoVector, Max |-> NoVector]

NoPath == [match |-> FALSE, z |-> {}, x |-> {}, y |-> {}]

NoValue == [first |-> Noise4(Cos(F(0)), Cos(F(0)), Sin(F(0)), Sin(F(0))),
            added |-> <<>>]

NoColour == [R |-> 0, G |-> 0, B |-> 0, A |-> 0]

Idle ==
    /\ path = NoPath
    /\ coords = NoCoords
    /\ err = "nil"
    /\ extent = NoExtent
    /\ x = 0
    /\ y = 0
    /\ c = NoVector
    /\ z = 0
    /\ scale = F(0)
    /\ value = NoValue
    /\ elevation = F(0)
    /\ rgb = [r |-> F(0), g |-> F(0), b |-> F(0)]
    /\ colour = NoColour

(***************************************************************************)
(* The tile server: one request at a time through tileServer's handler.    *)
(* The elevation and the colour of a pixel are functions of its world      *)
(* point alone; they are followed in the two specifications below.         *)
(***************************************************************************)
TileInit == pc = "idle" /\ Idle

\* a request arrives
Request ==
    /\ pc = "idle"
    /\ \E p \in Paths : path' = p
    /\ pc' = "request"
    /\ UNCHANGED <<coords, err, extent, x, y, c, torusVars, paletteVars>>

\* tileServer: extractTileCoords, and 400 on an error
Extract ==
    /\ pc = "request"
    /\ LET r == extractTileCoords(path)
       IN  /\ coords' = r.coords
           /\ err' = r.err
           /\ pc' = IF r.err = "nil" THEN "render" ELSE "bad request"
    /\ UNCHANGED <<path, extent, x, y, c, torusVars, paletteVars>>

\* renderTile: the extent, and the loops' first pixel
RenderStart ==
    /\ pc = "render"
    /\ extent' = tileExtent(coords)
    /\ x' = 0
    /\ y' = 0
    /\ pc' = "loop"
    /\ UNCHANGED <<path, coords, err, c, torusVars, paletteVars>>

\* renderTile: the world point of pixel (x, y)
RenderPixel ==
    /\ pc = "loop"
    /\ y < tileSize
    /\ c' = PixelPoint(extent, x, y)
    /\ pc' = "pixel"
    /\ UNCHANGED <<path, coords, err, extent, x, y, torusVars, paletteVars>>

\* renderTile: x++, and y++ at the end of a row
RenderAdvance ==
    /\ pc = "pixel"
    /\ IF NextPixel(x) < tileSize
       THEN x' = NextPixel(x) /\ y' = y
       ELSE x' = 0 /\ y' = NextPixel(y)
    /\ pc' = "loop"
    /\ UNCHANGED <<path, coords, err, extent, c, torusVars, paletteVars>>

\* renderTile returns and the tile is encoded
RenderDone ==
    /\ pc = "loop"
    /\ y >= tileSize
    /\ pc' = "ok"
    /\ UNCHANGED <<path, coords, err, extent, x, y, c, torusVars, paletteVars>>

\* the handler has answered; the server waits for the next request
Respond ==
    /\ pc \in {"ok", "bad request"}
    /\ pc' = "idle"
    /\ path' = NoPath
    /\ coords' = NoCoords
    /\ err' = "nil"
    /\ extent' = NoExtent
    /\ x' = 0
    /\ y' = 0
    /\ c' = NoVector
    /\ UNCHANGED <<torusVars, paletteVars>>

TileNext ==
    \/ Request
    \/ Extract
    \/ RenderStart
    \/ RenderPixel
    \/ RenderAdvance
    \/ RenderDone
    \/ Respond

Spec == TileInit /\ [][TileNext]_vars

(***************************************************************************)
(* simplexTorus(c, coords), statement by statement.                        *)
(***************************************************************************)
TorusInit ==
    /\ pc = "simplexTorus"
    /\ coords \in TorusTiles
    /\ c \in TorusPoints(coords)
    /\ path = NoPath
    /\ err = "nil"
    /\ extent = NoExtent
    /\ x = 0
    /\ y = 0
    /\ z = 0
    /\ scale = F(0)
    /\ value = NoValue
    /\ elevation = F(0)
    /\ rgb = [r |-> F(0), g |-> F(0), b |-> F(0)]
    /\ colour = NoColour

\* the base octave, scale := 1, z := 1
TorusBase ==
    /\ pc = "simplexTorus"
    /\ z' = TorusEntry(c).z
    /\ scale' = TorusEntry(c).scale
    /\ value' = TorusEntry(c).value
    /\ pc' = "octaves"
    /\ UNCHANGED <<coords, c, tileVars, paletteVars>>

\* one pass of the loop
TorusStep ==
    /\ pc = "octaves"
    /\ z <= OctaveLimit(coords)
    /\ LET st == TorusOctave(c, [z |-> z, scale |-> scale, value |-> value])
       IN  z' = st.z /\ scale' = st.scale /\ value' = st.value
    /\ UNCHANGED <<pc, coords, c, tileVars, paletteVars>>

\* return value
TorusReturn ==
    /\ pc = "octaves"
    /\ ~(z <= OctaveLimit(coords))
    /\ pc' = "returned"
    /\ UNCHANGED <<coords, c, tileVars, torusVars, paletteVars>>

TorusNext == TorusBase \/ TorusStep \/ TorusReturn

SpecTorus == TorusInit /\ [][TorusNext]_vars

(***************************************************************************)
(* colouriseByValue(elevation).                                            *)
(***************************************************************************)
PaletteInit ==
    /\ pc = "colouriseByValue"
    /\ elevation \in ElevationSamples
    /\ rgb = [r |-> F(0), g |-> F(0), b |-> F(0)]
    /\ colour = NoColour
    /\ path = NoPath
    /\ coords = NoCoords
    /\ err = "nil"
    /\ extent = NoExtent
    /\ x = 0
    /\ y = 0
    /\ c = NoVector
    /\ z = 0
    /\ scale = F(0)
    /\ value = NoValue

Colourise ==
    /\ pc = "colouriseByValue"
    /\ rgb' = Fractions(elevation)
    /\ colour' \in colouriseByValue(elevation)
    /\ pc' = "coloured"
    /\ UNCHANGED <<elevation, coords, c, tileVars, torusVars>>

PaletteNext == Colourise

SpecPalette == PaletteInit /\ [][PaletteNext]_vars

(***************************************************************************)
(* Properties of the tile server (Spec).                                   *)
(***************************************************************************)
\* n < 2^zoom, for an int n >= 0
InGrid(n, zoom) == \A i \in n : i < zoom

\* 4 * (n / 2^zoom - 0.5), exactly
ExactEdge(n, zoom) == XSub(Mk(FALSE, Shift(n, 2 - zoom)), Two)

\* 4 / 2^zoom and 2 / 2^zoom, exactly
Side(zoom) == Mk(FALSE, {2 - zoom})

HalfSide(zoom) == Mk(FALSE, {1 - zoom})

\* C1: the extent of every accepted tile (z, x, y) has
\* Min = (4 * (x / 2^z - 0.5), 4 * (y / 2^z - 0.5)), Min.X < Max.X,
\* Min.Y < Max.Y, and width and height 4 / 2^z; tile (0, 0, 0) has the extent
\* [-2, 2] x [-2, 2].
C1_TileExtent ==
    pc = "loop" =>
        /\ extent.Min = Vector(ExactEdge(coords.X, coords.Z),
                               ExactEdge(coords.Y, coords.Z))
        /\ XLt(extent.Min.X, extent.Max.X)
        /\ XLt(extent.Min.Y, extent.Max.Y)
        /\ XSub(extent.Max.X, extent.Min.X) = Side(coords.Z)
        /\ XSub(extent.Max.Y, extent.Min.Y) = Side(coords.Z)
        /\ (coords.Z = 0 =>
                extent = [Min |-> Vector(F(-2), F(-2)), Max |-> Vector(Two, Two)])

\* a zoom at which tileExtent is exact has been rendered
C1_ExactZoomRendered ==
    /\ pc = "loop"
    /\ coords.Z = MantissaBits
    /\ coords.X = 0..(MantissaBits - 1)
    /\ XSub(extent.Max.X, extent.Min.X) = Side(coords.Z)

\* the three numbers of the path are ints
Parsed ==
    /\ path.match
    /\ ~AtoiFails(path.z)
    /\ ~AtoiFails(path.x)
    /\ ~AtoiFails(path.y)

\* C2: a parsed triple (z, x, y) is accepted exactly when 0 <= x < 2^z and
\* 0 <= y < 2^z: outside the grid it yields an error, inside it is returned
\* without error.
C2_AcceptsTheGrid ==
    (pc \in {"render", "bad request"} /\ Parsed) =>
        /\ err = "nil" <=> (/\ InGrid(path.x, BitsVal(path.z))
                            /\ InGrid(path.y, BitsVal(path.z)))
        /\ err # "nil" => err = "invalid tile coordinates"
        /\ err = "nil" =>
               coords = [Z |-> BitsVal(path.z), X |-> path.x, Y |-> path.y]

\* C7: the world point of pixel (x, y) is
\* (Min.X + (Max.X - Min.X) * x / 256, Min.Y + (Max.Y - Min.Y) * y / 256),
\* the interpolation of each axis by its own span; pixel (0, 0) is the Min
\* corner and no pixel reaches the Max edge.
C7_PixelPoint ==
    pc = "pixel" =>
        /\ c = Vector(FAdd(extent.Min.X,
                           FMul(FDiv(F(x), TileSizeF),
                                FSub(extent.Max.X, extent.Min.X))),
                      FAdd(extent.Min.Y,
                           FMul(FDiv(F(y), TileSizeF),
                                FSub(extent.Max.Y, extent.Min.Y))))
        /\ (x = 0 /\ y = 0 => c = extent.Min)
        /\ XLe(extent.Min.X, c.X)
        /\ XLe(extent.Min.Y, c.Y)
        /\ XLt(c.X, extent.Max.X)
        /\ XLt(c.Y, extent.Max.Y)

\* the child (z + 1, 2x + i, 2y + j)
Child(tile, i, j) ==
    [Z |-> tile.Z + 1,
     X |-> MagAdd(Shift(tile.X, 1), NatBits(i)),
     Y |-> MagAdd(Shift(tile.Y, 1), NatBits(j))]

\* C8: the four children (z + 1, 2x + i, 2y + j) of an accepted tile have
\* Min = parent Min + (i, j) * 2 / 2^z and Max = Min + (2 / 2^z, 2 / 2^z):
\* child (2x, 2y) has the parent's Min corner, child (2x + 1, 2y + 1) its Max
\* corner.  The children are themselves tiles the server accepts.
C8_QuadTree ==
    (pc = "loop" /\ coords.Z + 1 < IntBits - 1) =>
        /\ \A i, j \in {0, 1} :
              LET e == tileExtent(Child(coords, i, j))
              IN  /\ e.Min = Vector(XAdd(extent.Min.X,
                                         XMul(F(i), HalfSide(coords.Z))),
                                    XAdd(extent.Min.Y,
                                         XMul(F(j), HalfSide(coords.Z))))
                  /\ e.Max = Vector(XAdd(e.Min.X, HalfSide(coords.Z)),
                                    XAdd(e.Min.Y, HalfSide(coords.Z)))
        /\ tileExtent(Child(coords, 0, 0)).Min = extent.Min
        /\ tileExtent(Child(coords, 1, 1)).Max = extent.Max

(***************************************************************************)
(* Properties of simplexTorus (SpecTorus).                                 *)
(***************************************************************************)
RightOf(tile) == [tile EXCEPT !.X = MagAdd(tile.X, {0})]

Below(tile) == [tile EXCEPT !.Y = MagAdd(tile.Y, {0})]

LastColumn(tile) == [tile EXCEPT !.X = 0..(tile.Z - 1)]

\* the tiles whose edges are compared: those the function is called for, and
\* tiles of the deep zooms at the start, in the middle and near the end of
\* the grid
EdgeTiles ==
    TorusTiles
        \cup {[Z |-> t[1], X |-> t[2], Y |-> t[2]] :
                 t \in {u \in {MantissaBits, MantissaBits + 1, IntBits - 2}
                              \X {{}, {MantissaBits - 1}, 0..(MantissaBits + 2)} :
                          InGrid(MagAdd(u[2], {0}), u[1])}}

\* the far edge of a tile is the near edge of the next one
EdgesMeet ==
    \A tile \in EdgeTiles :
        /\ InGrid(RightOf(tile).X, tile.Z) =>
               tileExtent(tile).Max.X = tileExtent(RightOf(tile)).Min.X
        /\ InGrid(Below(tile).Y, tile.Z) =>
               tileExtent(tile).Max.Y = tileExtent(Below(tile)).Min.Y

\* C3: at one zoom the elevation of a world point is the same whichever tile
\* it is computed for, the far edge Max.X (Max.Y) of a tile is exactly the
\* near edge Min.X (Min.Y) of the next tile, and the two tiles get the same
\* elevation on the edge they share.
C3_Seamless ==
    pc = "returned" =>
          /\ EdgesMeet
          /\ \A tile \in TorusTiles :
                 tile.Z = coords.Z => simplexTorus(c, tile) = value
          /\ (InGrid(RightOf(coords).X, coords.Z)
                  /\ c.X = tileExtent(coords).Max.X) =>
                 simplexTorus(Vector(tileExtent(RightOf(coords)).Min.X, c.Y),
                              RightOf(coords)) = value
          /\ (InGrid(Below(coords).Y, coords.Z)
                  /\ c.Y = tileExtent(coords).Max.Y) =>
                 simplexTorus(Vector(c.X, tileExtent(Below(coords)).Min.Y),
                              Below(coords)) = value

\* the elevation of a point on the edge a tile shares with its right
\* neighbour has been returned
C3_SharedEdgeReturned ==
    /\ pc = "returned"
    /\ coords.Z >= 1
    /\ InGrid(RightOf(coords).X, coords.Z)
    /\ c.X = tileExtent(coords).Max.X
    /\ Cardinality({tile \in TorusTiles : tile.Z = coords.Z}) > 1

\* a number of half turns that is a whole number of full turns, and not none
WholeTurns(d) == d.bits # {} /\ \A i \in d.bits : i >= 1

NoiseAt(p, k) ==
    LET hx == Mk(p.X.neg, Shift(p.X.bits, k - 1))
        hy == Mk(p.Y.neg, Shift(p.Y.bits, k - 1))
    IN  Noise4(Cos(hx), Cos(hy), Sin(hx), Sin(hy))

\* what holds at every step of simplexTorus
OctavesSoFar ==
    /\ pc = "octaves" =>
          /\ z \in 1..(coords.Z + 17)
          /\ Len(value.added) = z - 1
          /\ scale = Mk(FALSE, {z - 1})
    /\ pc \in {"octaves", "returned"} =>
          /\ value.first = NoiseAt(c, 0)
          /\ \A k \in 1..Len(value.added) :
                 value.added[k] = [noise |-> NoiseAt(c, k),
                                   over  |-> Mk(FALSE, {k})]
    /\ pc = "returned" => Len(value.added) = coords.Z + 16

\* a step of the loop either adds one octave and counts it, z staying within
\* coords.Z + 17, or finds z = coords.Z + 17 and returns the value as it is:
\* coords.Z + 17 - z decreases with every pass, so that the loop ends
LoopAdvances ==
    pc = "octaves" =>
        \/ /\ z <= coords.Z + 16
           /\ pc' = "octaves"
           /\ z' = z + 1
           /\ scale' = Mk(FALSE, {z})
           /\ Len(value'.added) = Len(value.added) + 1
           /\ SubSeq(value'.added, 1, Len(value.added)) = value.added
           /\ value'.first = value.first
        \/ /\ z = coords.Z + 17
           /\ pc' = "returned"
           /\ value' = value

\* C9: simplexTorus evaluates Noise4 z + 17 times: once at frequency 1 and
\* weight 1, then for k = 1 .. z + 16 with scale = 2^k, the angle multiplied
\* by 2^k and the noise divided by 2^k before it is added; the loop ends and
\* the value returned is the sum of the base octave and of those z + 16
\* octaves.
C9_Octaves == []OctavesSoFar /\ [][LoopAdvances]_vars

\* the function has returned for a tile of zoom WrapZoom
C9_DeepestReturned ==
    /\ pc = "returned"
    /\ coords.Z = WrapZoom
    /\ Len(value.added) = WrapZoom + 16
    /\ scale = Mk(FALSE, {WrapZoom + 16})

(***************************************************************************)
(* Properties of colouriseByValue (SpecPalette).                           *)
(***************************************************************************)
Bounds ==
    <<BoundDarkWater, BoundWater, BoundSand, BoundGrasslands, BoundGreenery,
      BoundMountains, BoundPaleSnow>>

\* the band of an elevation: the first bound strictly greater than it, or 8
BandOf(v) ==
    IF \E i \in 1..Len(Bounds) : XLt(v, Bounds[i])
    THEN MinOf({i \in 1..Len(Bounds) : XLt(v, Bounds[i])})
    ELSE Len(Bounds) + 1

\* the palette table: each channel is (a + b * value) / 10000, given as <<a, b>>
PaletteTable ==
    << [r |-> <<0, 0>>,             g |-> <<0, 0>>,             b |-> <<4000, 0>>],
       [r |-> <<1000, 10000>>,      g |-> <<1000, 10000>>,      b |-> <<5000, 10000>>],
       [r |-> <<1010000, -5000000>>, g |-> <<1010000, -5000000>>, b |-> <<505000, -2500000>>],
       [r |-> <<7200, -12000>>,     g |-> <<9600, -16000>>,     b |-> <<4800, -8000>>],
       [r |-> <<1800, -2000>>,      g |-> <<7200, -8000>>,      b |-> <<900, -1000>>],
       [r |-> <<-1000, 10000>>,     g |-> <<-875, 8750>>,       b |-> <<-750, 7500>>],
       [r |-> <<0, 8000>>,          g |-> <<0, 8000>>,          b |-> <<0, 8000>> ],
       [r |-> <<10000, 0>>,         g |-> <<10000, 0>>,         b |-> <<10000, 0>>] >>

\* the float64 f is the law's value at v up to the rounding of the constants
\* and of the operations: |f - (a + b * v) / 10000| <= 2^-TolBits
TolBits == 40

Follows(f, law, v) ==
    XLe(XAbs(XSub(XMul(F(100 * 100), f), XAdd(F(law[1]), XMul(F(law[2]), v)))),
        Mk(FALSE, Shift(NatBits(100 * 100), 0 - TolBits)))

\* n is channel * 255 without its fraction
Truncates(n, f) ==
    /\ XLe(F(n), FMul(f, F(255)))
    /\ XLt(FMul(f, F(255)), F(n + 1))

\* C5: the band of an elevation is given by the first of the bounds -0.1, 0.2,
\* 0.201, 0.40, 0.60, 0.90, 1.2 strictly greater than it (the band above all
\* of them is white snow); r, g and b follow that band's law of the palette
\* table; each channel of the colour is channel * 255 truncated, and alpha is
\* 255.
C5_Palette ==
    pc = "coloured" =>
        LET law == PaletteTable[BandOf(elevation)]
        IN  /\ Follows(rgb.r, law.r, elevation)
            /\ Follows(rgb.g, law.g, elevation)
            /\ Follows(rgb.b, law.b, elevation)
            /\ Truncates(colour.R, rgb.r)
            /\ Truncates(colour.G, rgb.g)
            /\ Truncates(colour.B, rgb.b)
            /\ colour.A = 255

\* an elevation equal to a bound has been coloured by the band above it
C5_BoundColoured ==
    /\ pc = "coloured"
    /\ elevation = BoundGreenery
    /\ BandOf(elevation) = 6
    /\ rgb = Mountains(elevation)
    /\ colour.A = 255

\* the law of the band below bound i
LowerLaw(i, v) ==
    CASE i = 1 -> DarkBlueWater(v)
      [] i = 2 -> BlueWater(v)
      [] i = 3 -> YellowSand(v)
      [] i = 4 -> Grasslands(v)
      [] i = 5 -> Greenery(v)
      [] i = 6 -> Mountains(v)
      [] i = 7 -> PaleSnow(v)

\* |f - g| <= 0.05
Close(f, g) == XLe(XMul(F(20), XAbs(XSub(f, g))), One)

\* no channel jumps at bound i, where the elevation is: neither from the lower
\* band's law at the bound nor from the colour of the float64 just below it
Smooth(i) ==
    \A ch \in {"r", "g", "b"} :
        /\ Close(LowerLaw(i, elevation)[ch], rgb[ch])
        /\ Close(Fractions(NextDown(elevation))[ch], rgb[ch])

\* a channel jumps at bound i, both from the lower band's law at the bound
\* and from the colour of the float64 just below it
Jumps(i) ==
    \E ch \in {"r", "g", "b"} :
        /\ ~Close(LowerLaw(i, elevation)[ch], rgb[ch])
        /\ ~Close(Fractions(NextDown(elevation))[ch], rgb[ch])

\* C6 as stated: at each of the bounds -0.1, 0.2, 0.40, 0.60, 0.90 and 1.2
\* no channel differs by more than 0.05 between just below the bound and the
\* bound.
C6_ContinuousAtBounds ==
    pc = "coloured" =>
        \A i \in {1, 2, 4, 5, 6, 7} : elevation = Bounds[i] => Smooth(i)

\* C6: at the bounds -0.1 and 1.2 no channel differs by more than 0.05
\* between just below the bound and the bound; at each of 0.2, 0.40, 0.60 and
\* 0.90, as at 0.201, some channel jumps by more than 0.05.
C6_ContinuousAtEnds ==
    pc = "coloured" =>
        /\ \A i \in {1, 7} : elevation = Bounds[i] => Smooth(i)
        /\ \A i \in {2, 3, 4, 5, 6} : elevation = Bounds[i] => Jumps(i)

\* the bound 1.2 has been coloured, and the bound 0.2 with its jump
C6_BoundsColoured ==
    /\ pc = "coloured"
    /\ \/ elevation = BoundPaleSnow /\ Smooth(7) /\ rgb.r = One
       \/ elevation = BoundWater /\ Jumps(2)

\* the largest r, g or b: 1 + 2^-50, which 500 * (0.202 - 0.2) is in float64
MaxFraction == Mk(FALSE, {0, -50})

\* C10 as stated: r, g and b lie in [0, 1] and channel * 255 in [0, 255].
C10_UnitRange ==
    pc = "coloured" =>
        \A ch \in {"r", "g", "b"} :
            /\ XLe(F(0), rgb[ch])
            /\ XLe(rgb[ch], One)
            /\ XLe(F(0), FMul(rgb[ch], D0xff))
            /\ XLe(FMul(rgb[ch], D0xff), D0xff)

\* C10: r, g and b lie in [0, 1 + 2^-50] and channel * 255 in [0, 256), so
\* that the conversion to uint8 has one outcome, the truncated product, which
\* is in 0 .. 255: it neither wraps around nor goes negative.
C10_ChannelsFit ==
    pc = "coloured" =>
        /\ \A ch \in {"r", "g", "b"} :
              /\ XLe(F(0), rgb[ch])
              /\ XLe(rgb[ch], MaxFraction)
              /\ XLe(F(0), FMul(rgb[ch], D0xff))
              /\ XLt(FMul(rgb[ch], D0xff), Mk(FALSE, {8}))
        /\ colouriseByValue(elevation) = {colour}
        /\ Truncates(colour.R, rgb.r)
        /\ Truncates(colour.G, rgb.g)
        /\ Truncates(colour.B, rgb.b)

\* the elevation 0.2 has been coloured: r and g exceed 1 and become 255
C10_AboveOneColoured ==
    /\ pc = "coloured"
    /\ elevation = BoundWater
    /\ rgb.r = MaxFraction
    /\ colour.R = 255

====
